---- MODULE Spec2Model ----
(***************************************************************************)
(* Capacity allocation engine of smart_cap_chatbot.                        *)
(*                                                                         *)
(* lp_solver.allocate_customer_capacity reads the carrier_profile table,   *)
(* filters the carriers, solves a linear program and writes the granted    *)
(* amounts back with one UPDATE per carrier (update_allocatable_tps).      *)
(* data_analyst.preprocess_data rebuilds carrier_profile on the            *)
(* scheduler's thread.  app.allocate_capacity_helper (chat flow) and       *)
(* app.allocate_capacity (/api/allocate) are the two callers.              *)
(*                                                                         *)
(* Quantities: a TPS read from the table is an integer (the column is      *)
(* CAST(... AS INTEGER)).  A component of the solver's vector is a         *)
(* multiple of 1/Grid TPS.  An allocated_tps (round(float(tps), 2)) is a   *)
(* whole number of hundredths of a TPS.                                    *)
(***************************************************************************)
EXTENDS Integers, Sequences, FiniteSets, TLC

\* ---------------------------------------------------------------- bounds
MaxTps == 2         \* largest allowed_tps of a carrier_capacity row
MaxCalls == 2       \* allocation calls started in one behaviour
MaxWorkers == 2     \* callers that may be inside the engine at once
MaxEvents == 4      \* logins, logouts and requests of one client
MaxRefreshes == 4   \* runs of refresh_signature, the one at start included

\* ------------------------------------------------------------- the data
CarrierOrder == <<"A", "B", "C">>
Carriers == {CarrierOrder[i] : i \in 1..Len(CarrierOrder)}

\* countries_supported of each carrier_capacity row (a list)
countries_supported ==
    [c \in Carriers |->
        CASE c = "A" -> <<"US", "CA">>
          [] c = "B" -> <<"US">>
          [] OTHER   -> <<"CA", "MX">>]

\* hours that the traffic log can make a carrier's busiest hour
PeakHours == {2, 12}

Max(a, b) == IF a >= b THEN a ELSE b
Min(a, b) == IF a <= b THEN a ELSE b

RECURSIVE SumSeq(_)
SumSeq(s) == IF s = <<>> THEN 0 ELSE Head(s) + SumSeq(Tail(s))

RECURSIVE SelectIdx(_, _, _)
\* indices i of 1..n with P[i], in increasing order
SelectIdx(P, i, n) ==
    IF i > n THEN <<>>
    ELSE IF P[i] THEN <<i>> \o SelectIdx(P, i + 1, n)
    ELSE SelectIdx(P, i + 1, n)

InList(x, s) == \E i \in 1..Len(s) : s[i] = x

\* ------------------------------------------------------------- requests
\* A peak_window string is its sequence of tokens: "9-12" is <<"9","-","12">>.
IntOf ==
    ("0" :> 0) @@ ("5" :> 5) @@ ("8" :> 8) @@ ("9" :> 9) @@ ("12" :> 12)
    @@ ("23" :> 23)
Numerals == DOMAIN IntOf

RECURSIVE Split(_)
\* str.split('-'): the parts between the dashes, empty parts included
Split(s) ==
    IF s = <<>> THEN << <<>> >>
    ELSE LET rest == Split(Tail(s)) IN
         IF Head(s) = "-" THEN << <<>> >> \o rest
         ELSE << <<Head(s)>> \o Head(rest) >> \o Tail(rest)

\* int(part) succeeds on a single numeral
IsInt(part) == Len(part) = 1 /\ part[1] \in Numerals

required_keys == {"requested_tps", "destinations", "peak_window", "peak_tps"}

DefaultPeakWindow == <<"0", "-", "23">>

PeakWindows ==
    { DefaultPeakWindow, <<"9", "-", "12">>, <<"5", "-", "8">>,
      <<"12", "-", "12">> }
MalformedPeakWindows == { <<"9">>, <<"-", "5", "-", "8">> }

\* a destinations value: a list of codes; the string "US" iterates as its
\* characters <<"U", "S">>
DestinationLists ==
    { <<"US">>, <<"US", "CA">>, <<"CA", "MX", "US">>, <<"FR">> }

MaxRequest == MaxTps + 1

WellFormedRequests ==
    [ keys : {required_keys},
      requested_tps : 1..MaxRequest,
      tps_is_number : {TRUE},
      destinations : DestinationLists,
      peak_window : PeakWindows ]

BaseRequest ==
    [ keys |-> required_keys, requested_tps |-> 1, tps_is_number |-> TRUE,
      destinations |-> <<"US">>, peak_window |-> DefaultPeakWindow ]

\* requests with one field missing or of the wrong shape
MalformedRequests ==
    { [BaseRequest EXCEPT !.keys = required_keys \ {k}] : k \in required_keys }
    \cup { [BaseRequest EXCEPT !.requested_tps = v] : v \in {0 - 1, 0} }
    \cup { [BaseRequest EXCEPT !.tps_is_number = FALSE] }
    \cup { [BaseRequest EXCEPT !.destinations = d] : d \in { <<>>, <<"U", "S">> } }
    \cup { [BaseRequest EXCEPT !.peak_window = w, !.destinations = d] :
                w \in MalformedPeakWindows, d \in { <<"US">>, <<"FR">> } }

Requests == WellFormedRequests \cup MalformedRequests

\* request.get('peak_window', '0-23')
GetPeakWindow(request) ==
    IF "peak_window" \in request.keys THEN request.peak_window
    ELSE DefaultPeakWindow

\* lines 52-54: the split must unpack into two parts and both must be ints
PeakWindowParses(request) ==
    LET parts == Split(GetPeakWindow(request)) IN
    Len(parts) = 2 /\ IsInt(parts[1]) /\ IsInt(parts[2])

requested_start(request) == IntOf[Split(GetPeakWindow(request))[1][1]]
requested_end(request) == IntOf[Split(GetPeakWindow(request))[2][1]]


\* ------------------------------------------------------ the carrier table
\* One carrier_profile row as preprocess_data's query computes it from the
\* carrier_capacity row cc and the Approved total of the allocations table.
\* total is in hundredths of a TPS; the CAST of the floating-point value to
\* INTEGER rounds to the nearest integer, a half to the even one.
RoundHalfEven(n) ==
    LET q == n \div 100
        r == n % 100
    IN  IF r < 50 THEN q
        ELSE IF r > 50 THEN q + 1
        ELSE IF q % 2 = 0 THEN q ELSE q + 1

ProfileRow(cc, total) ==
    [ allocatable_tps |->
          RoundHalfEven(Max(0, 100 * (cc.allowed_tps - cc.avg_tps_actual) - total)),
      actual_peak_start_time |-> Max(0, cc.actual_peak_hour - 4),
      actual_peak_end_time |-> Min(23, cc.actual_peak_hour + 3),
      supported_countries_list |-> cc.countries_supported ]

\* ------------------------------------------------------------ the engine
\* lines 28-32: the carrier supports at least one requested destination
SupportsSomeDestination(row, request) ==
    \E i \in 1..Len(request.destinations) :
        InList(request.destinations[i], row.supported_countries_list)

\* lines 37-43.  Null encodes a cell int() rejects (a NULL read as NaN); the
\* column itself is never negative (GREATEST(0, ...) in preprocess_data and
\* in update_allocatable_tps)
Null == 0 - 1
compute_allocatable_tps(v) ==
    IF v = Null THEN 0 ELSE Max(0, v)

\* lines 56-60
peak_time_overlaps(row, request) ==
    ~ (row.actual_peak_end_time <= requested_start(request)
       \/ row.actual_peak_start_time >= requested_end(request))

\* lines 28-32: the rows of profile_df that pass, in table order
DestinationStage(profile, request) ==
    LET P == [i \in 1..Len(CarrierOrder) |->
                 SupportsSomeDestination(profile[CarrierOrder[i]], request)]
        idx == SelectIdx(P, 1, Len(CarrierOrder))
    IN  [j \in 1..Len(idx) |-> CarrierOrder[idx[j]]]

\* lines 45-48: the column max_allocatable_tps is added; no row is dropped
CapacityStage(profile, request) ==
    DestinationStage(profile, request)

\* a peak stage that keeps every row
PeakStageKeepsAll(profile, request) ==
    CapacityStage(profile, request)

\* line 62
PeakStage(profile, request) ==
    LET kept == CapacityStage(profile, request)
        P == [i \in 1..Len(kept) |-> peak_time_overlaps(profile[kept[i]], request)]
        idx == SelectIdx(P, 1, Len(kept))
    IN  [j \in 1..Len(idx) |-> kept[idx[j]]]

MsgNoDestination == "No carriers found supporting the requested destinations"
MsgNoCapacity == "No carriers found supporting the requested TPS"
MsgNoPeak == "No carriers found supporting the requested peak times"
MsgNoSolution == "Could not allocate TPS under current constraints"
MsgMissing == "Missing required fields"

\* the stages with the peak_window parsed before the destination stage
FilterOutcomePeakFirst(profile, request) ==
    IF ~ PeakWindowParses(request) THEN "raise"
    ELSE IF DestinationStage(profile, request) = <<>> THEN MsgNoDestination
    ELSE IF PeakStage(profile, request) = <<>> THEN MsgNoPeak
    ELSE "ok"

\* lines 25-65: "raise" when the peak_window does not parse, the rejection
\* message of the first empty stage, or "ok"
FilterOutcome(profile, request) ==
    IF DestinationStage(profile, request) = <<>> THEN MsgNoDestination
    ELSE IF CapacityStage(profile, request) = <<>> THEN MsgNoCapacity
    ELSE IF ~ PeakWindowParses(request) THEN "raise"
    ELSE IF PeakStage(profile, request) = <<>> THEN MsgNoPeak
    ELSE "ok"

\* filtered_carriers after line 62, with the columns the solver stage uses
filtered_carriers(profile, request) ==
    LET kept == PeakStage(profile, request) IN
    [j \in 1..Len(kept) |->
        [ carrier_name |-> kept[j],
          max_allocatable_tps |-> compute_allocatable_tps(profile[kept[j]].allocatable_tps),
          supported_countries_list |-> profile[kept[j]].supported_countries_list ]]


\* ------------------------------------------------------------ the solver
\* The solver's vector has components that are multiples of 1/Grid TPS:
\* halves and thirds, the even shares of up to three destinations.
Grid == 2 * 3

\* bounds that leave out the carriers' limits
NoUpperBounds(fc, x) ==
    \A i \in 1..Len(fc) : 0 <= x[i]

\* line 101: bounds = [(0, tps_limits[i])]
BoundsHold(fc, x) ==
    \A i \in 1..Len(fc) : 0 <= x[i] /\ x[i] <= Grid * fc[i].max_allocatable_tps

\* an inequality in place of the equality row
EqualityAtMost(request, x) ==
    SumSeq(x) <= Grid * request.requested_tps

\* lines 78-80: sum of allocations = requested TPS
EqualityHolds(request, x) ==
    SumSeq(x) = Grid * request.requested_tps

\* a formulation without the destination rows
NoDestinationRows(fc, request, x) == TRUE

\* lines 84-99: for each destination d, the carriers that support d together
\* allocate at least requested_tps / num_dest
DestinationRowsHold(fc, request, x) ==
    LET destinations == request.destinations
        num_dest == Len(destinations)
        Coef(d, i) == IF InList(d, fc[i].supported_countries_list) THEN 1 ELSE 0
    IN  \A j \in 1..num_dest :
          num_dest * SumSeq([i \in 1..Len(fc) |-> Coef(destinations[j], i) * x[i]])
             >= Grid * request.requested_tps

\* lines 70-103: the vectors x (in 1/Grid TPS, one component per filtered
\* carrier) that meet the bounds, the equality and every destination row
Feasible(fc, request) ==
    { x \in [1..Len(fc) -> 0..(Grid * Max(0, request.requested_tps))] :
        /\ BoundsHold(fc, x)
        /\ EqualityHolds(request, x)
        /\ DestinationRowsHold(fc, request, x) }

\* a truncation to two decimals in place of round()
Round2Floor(n) == (100 * n) \div Grid

\* round(float(tps), 2) of tps = n/Grid, in hundredths
Round2(n) == (200 * n + Grid) \div (2 * Grid)

\* lines 108-114: the carriers given a positive amount, in table order
Allocations(fc, x) ==
    LET P == [i \in 1..Len(fc) |-> x[i] > 0]
        idx == SelectIdx(P, 1, Len(fc))
    IN  [j \in 1..Len(idx) |->
            [ carrier |-> fc[idx[j]].carrier_name,
              allocated_tps |-> Round2(x[idx[j]]) ]]

\* a commit of every carrier's whole limit, made before result.success is read
GreedyPending(fc) ==
    Allocations(fc, [i \in 1..Len(fc) |-> Grid * fc[i].max_allocatable_tps])

\* lines 105-106: with result.success false the call returns before
\* update_allocatable_tps, so nothing is left to commit
PendingOnFailure(fc) == <<>>

\* an UPDATE that adds the amount
update_row_added(allocatable_tps, allocated_tps) ==
    (100 * allocatable_tps + allocated_tps + 50) \div 100

\* the same UPDATE without GREATEST(..., 0)
update_row_unfloored(allocatable_tps, allocated_tps) ==
    (100 * allocatable_tps - allocated_tps + 50) \div 100

\* lines 133-137: GREATEST(allocatable_tps - allocated_tps, 0) stored into
\* the INTEGER column, which rounds the decimal to the nearest integer
update_row(allocatable_tps, allocated_tps) ==
    (Max(100 * allocatable_tps - allocated_tps, 0) + 50) \div 100


\* ------------------------------------------------------------- the state
VARIABLES
    carrier_capacity,   \* the carrier_capacity table and each carrier's traffic
    carrier_profile,    \* the carrier_profile table
    allocations,        \* the allocations (audit) table, a list of rows
    workers,            \* the callers that handle requests
    pc,                 \* where each caller is
    entry,              \* "chat" (allocate_capacity_helper) or "api"
    request,            \* the request a caller is handling
    profile_df,         \* the carrier_profile rows its call has read
    pending,            \* its allocations list, being committed
    next,               \* the index in pending of its next UPDATE
    result,             \* what allocate_customer_capacity returned to it
    response,           \* what it hands to its own caller
    arrivals,           \* the requests still to arrive, in order
    refreshed,          \* each carrier's allocatable_tps at the last refresh
    granted,            \* hundredths granted by committing calls since then
    session,            \* the client's session: its api_key, or NoKey
    customer,           \* the api_key each caller took from the session
    customer_info,      \* each customer's allocated_tps
    signature_cache,    \* the module signature_cache: its date and signature
    job,                \* the scheduler's thread inside refresh_signature
    llm_call            \* the request handler inside call_llm_api

vars == << carrier_capacity, carrier_profile, allocations, workers, pc, entry,
           request, profile_df, pending, next, result, response, arrivals,
           refreshed, granted, session, customer, customer_info,
           signature_cache, job, llm_call >>

\* the tables, callers and session of the web application
web == << carrier_capacity, carrier_profile, allocations, workers, pc, entry,
          request, profile_df, pending, next, result, response, arrivals,
          refreshed, granted, session, customer, customer_info >>

\* the signing of the requests to the LLM service
signing == << signature_cache, job, llm_call >>

Workers == 1..MaxWorkers
Entries == {"chat", "api"}

NoRequest == [BaseRequest EXCEPT !.keys = {}]
NoResult == [ status |-> "none", message |-> "", allocations |-> <<>>,
              total_allocated_tps |-> 0 ]

Error(msg) == [NoResult EXCEPT !.status = "error", !.message = msg]
Failure(msg) == [NoResult EXCEPT !.status = "failure", !.message = msg]
Raised == [NoResult EXCEPT !.status = "raise"]

\* app.py 146-149 and 180: the helper answers with status "failure"; the
\* endpoint answers {"error": ...}, 400, which has no status field
MissingFields(e) ==
    IF e = "chat" THEN Failure(MsgMissing)
    ELSE [NoResult EXCEPT !.status = "absent", !.message = MsgMissing]

\* lines 292-305: the total of allocated_tps over the rows of the allocations
\* table whose allocation_status is 'Approved', for one carrier
RECURSIVE DescriptionTotal(_, _)
DescriptionTotal(description, c) ==
    IF description = <<>> THEN 0
    ELSE (IF Head(description).carrier = c THEN Head(description).allocated_tps ELSE 0)
         + DescriptionTotal(Tail(description), c)

RECURSIVE total_allocated_tps(_, _)
total_allocated_tps(table, c) ==
    IF table = <<>> THEN 0
    ELSE (IF Head(table).allocation_status = "Approved"
          THEN DescriptionTotal(Head(table).allocation_description, c) ELSE 0)
         + total_allocated_tps(Tail(table), c)

\* CREATE OR REPLACE TABLE carrier_profile AS ... (lines 212-431)
preprocess_data(capacity, table) ==
    [c \in Carriers |-> ProfileRow(capacity[c], total_allocated_tps(table, c))]

\* ------------------------------------------------------------ sessions
\* "api_key" not in session
NoKey == "<none>"
Customers == {"c1", "c2"}

\* what a client sends besides allocation requests: the login form and a
\* GET of /logout
LoginEvent(k, pw) == [event |-> "login", api_key |-> k, password |-> pw]
LogoutEvent == [event |-> "logout"]
IsRequest(ev) == "keys" \in DOMAIN ev

\* request.path as its segments
PathOf(e) ==
    IF e = "chat" THEN <<"/chat", "/message">> ELSE <<"/api", "/allocate">>

\* str.startswith
StartsWith(path, prefix) ==
    /\ Len(prefix) <= Len(path)
    /\ \A i \in 1..Len(prefix) : path[i] = prefix[i]

\* a before_request hook that lets every request through
NoRouteGuard(path, sess) == "pass"

\* app.py 33-39, for the paths of PathOf (none is under /admin/dashboard)
restrict_protected_routes(path, sess) ==
    IF StartsWith(path, <<"/chat">>) /\ sess = NoKey THEN "redirect"
    ELSE "pass"

\* redirect("/") and the 403 of chat_message
Redirect == [NoResult EXCEPT !.status = "redirect", !.message = "/"]
NotAuthenticated ==
    [NoResult EXCEPT !.status = "forbidden", !.message = "Not authenticated"]

\* app.py 47-50: the session takes the form's api_key when the password is
\* the fixed one
login_session(sess, ev) ==
    IF ev.password = "1234" THEN ev.api_key ELSE sess

\* an UPDATE that adds the amount twice
update_allocated_tps_twice(info, api_key, tps_assigned) ==
    [k \in DOMAIN info |->
        IF k = api_key THEN info[k] + 2 * tps_assigned ELSE info[k]]

\* app.py 256-261: UPDATE customer_info SET allocated_tps =
\* COALESCE(allocated_tps, 0) + ? WHERE customer_api_key = ?
update_allocated_tps_for_customer(info, api_key, tps_assigned) ==
    [k \in DOMAIN info |->
        IF k = api_key THEN info[k] + tps_assigned ELSE info[k]]

\* ------------------------------------------------------------- signing
\* hmac_generator.py 102-120: the digest is taken over the method, host,
\* resource, content type, API key, nonce and date, of which only the date
\* varies; an HMAC-SHA512 is taken to have no collisions
get_signature(date) ==
    << "sha512", "POST", "edw-bedrock-api.vpn.edw.dev.vonagenetworks.net",
       "/edw-bedrock/invoke", "application/json", "API_KEY", "XXXX", date >>

\* formatdate at the n-th run of refresh_signature; runs are 15 minutes
\* apart, so the dates differ
formatdate(n) == << "date", n >>

\* no header built or sent yet
NoHeaders == [Authorization |-> <<>>, XVonDate |-> <<>>]

\* start_preprocess_scheduler has run preprocess_data once; no request yet
InitWith(capacities, workloads, W) ==
    /\ carrier_capacity \in capacities
    /\ arrivals \in workloads
    /\ carrier_profile = preprocess_data(carrier_capacity, <<>>)
    /\ allocations = <<>>
    /\ workers = W
    /\ pc = [w \in Workers |-> "idle"]
    /\ entry = [w \in Workers |-> "api"]
    /\ request = [w \in Workers |-> NoRequest]
    /\ profile_df = [w \in Workers |-> carrier_profile]
    /\ pending = [w \in Workers |-> <<>>]
    /\ next = [w \in Workers |-> 1]
    /\ result = [w \in Workers |-> NoResult]
    /\ response = [w \in Workers |-> NoResult]
    /\ refreshed = [c \in Carriers |-> carrier_profile[c].allocatable_tps]
    /\ granted = [c \in Carriers |-> 0]
    /\ session = NoKey
    /\ customer = [w \in Workers |-> NoKey]
    /\ customer_info = [k \in Customers |-> 0]
    /\ signature_cache = [ date |-> formatdate(1),
                           signature |-> get_signature(formatdate(1)) ]
    /\ job = [pc |-> "waiting", runs |-> 1, signature |-> <<>>]
    /\ llm_call = [pc |-> "idle", headers |-> NoHeaders, sent |-> NoHeaders]


\* ----------------------------------------------------------- the actions
\* app.py 33-37, 59-60, 88, 142-149 and 174-180: a caller takes a request.
\* One for /chat/message without a session key is turned away before the
\* allocator; one that lacks a required key is answered at once.
Receive(w, e) ==
    /\ w \in workers
    /\ pc[w] \in {"idle", "done", "refused"}
    /\ arrivals # <<>>
    /\ IsRequest(Head(arrivals))
    /\ arrivals' = Tail(arrivals)
    /\ entry' = [entry EXCEPT ![w] = e]
    /\ result' = [result EXCEPT ![w] = NoResult]
    /\ customer' = [customer EXCEPT ![w] = session]
    /\ IF restrict_protected_routes(PathOf(e), session) = "redirect"
       THEN /\ pc' = [pc EXCEPT ![w] = "refused"]
            /\ request' = [request EXCEPT ![w] = NoRequest]
            /\ response' = [response EXCEPT ![w] = Redirect]
       ELSE IF e = "chat" /\ session = NoKey
       THEN /\ pc' = [pc EXCEPT ![w] = "refused"]
            /\ request' = [request EXCEPT ![w] = NoRequest]
            /\ response' = [response EXCEPT ![w] = NotAuthenticated]
       ELSE /\ request' = [request EXCEPT ![w] = Head(arrivals)]
            /\ IF required_keys \subseteq Head(arrivals).keys
               THEN /\ pc' = [pc EXCEPT ![w] = "received"]
                    /\ response' = [response EXCEPT ![w] = NoResult]
               ELSE /\ pc' = [pc EXCEPT ![w] = "done"]
                    /\ response' = [response EXCEPT ![w] = MissingFields(e)]
    /\ UNCHANGED << carrier_capacity, carrier_profile, allocations, workers,
                    profile_df, pending, next, refreshed, granted, session,
                    customer_info >>
    /\ UNCHANGED signing

\* some caller is free to handle a request
SomeoneFree == \E w \in workers : pc[w] \in {"idle", "done", "refused"}

\* app.py 42-51: POST / with the login form
login ==
    /\ arrivals # <<>>
    /\ ~ IsRequest(Head(arrivals))
    /\ Head(arrivals).event = "login"
    /\ SomeoneFree
    /\ arrivals' = Tail(arrivals)
    /\ session' = login_session(session, Head(arrivals))
    /\ UNCHANGED << carrier_capacity, carrier_profile, allocations, workers,
                    pc, entry, request, profile_df, pending, next, result,
                    response, refreshed, granted, customer, customer_info >>
    /\ UNCHANGED signing

\* app.py 111-114: session.clear()
logout ==
    /\ arrivals # <<>>
    /\ ~ IsRequest(Head(arrivals))
    /\ Head(arrivals).event = "logout"
    /\ SomeoneFree
    /\ arrivals' = Tail(arrivals)
    /\ session' = NoKey
    /\ UNCHANGED << carrier_capacity, carrier_profile, allocations, workers,
                    pc, entry, request, profile_df, pending, next, result,
                    response, refreshed, granted, customer, customer_info >>
    /\ UNCHANGED signing

\* lp_solver.py 12-114: read carrier_profile, run the three stages on it,
\* formulate and solve.  linprog returns some optimal point, and every
\* feasible point is optimal (the objective is the equality constraint's
\* left-hand side).
allocate_customer_capacity(w) ==
    /\ pc[w] = "received"
    /\ profile_df' = [profile_df EXCEPT ![w] = carrier_profile]
    /\ LET outcome == FilterOutcome(carrier_profile, request[w])
           fc == filtered_carriers(carrier_profile, request[w])
       IN
       IF outcome = "raise" \/ (outcome = "ok" /\ ~ request[w].tps_is_number)
       THEN /\ pc' = [pc EXCEPT ![w] = "done"]
            /\ response' = [response EXCEPT ![w] = Raised]
            /\ UNCHANGED << result, pending, next >>
       ELSE IF outcome # "ok"
       THEN /\ pc' = [pc EXCEPT ![w] = "responding"]
            /\ result' = [result EXCEPT ![w] = Error(outcome)]
            /\ UNCHANGED << response, pending, next >>
       ELSE IF Feasible(fc, request[w]) = {}
       THEN /\ pc' = [pc EXCEPT ![w] =
                        IF PendingOnFailure(fc) = <<>> THEN "responding"
                        ELSE "committing"]
            /\ result' = [result EXCEPT ![w] = Error(MsgNoSolution)]
            /\ pending' = [pending EXCEPT ![w] = PendingOnFailure(fc)]
            /\ UNCHANGED << response, next >>
       ELSE \E x \in Feasible(fc, request[w]) :
            /\ pc' = [pc EXCEPT ![w] = "committing"]
            /\ pending' = [pending EXCEPT ![w] = Allocations(fc, x)]
            /\ next' = [next EXCEPT ![w] = 1]
            /\ result' = [result EXCEPT ![w] =
                  [ status |-> "success", message |-> "",
                    allocations |-> Allocations(fc, x),
                    total_allocated_tps |-> Round2(SumSeq(x)) ]]
            /\ UNCHANGED response
    /\ UNCHANGED << carrier_capacity, carrier_profile, allocations, workers,
                    entry, request, arrivals, refreshed, granted, session,
                    customer, customer_info >>
    /\ UNCHANGED signing

\* lp_solver.py 127-137: one UPDATE statement of update_allocatable_tps
update_allocatable_tps(w) ==
    /\ pc[w] = "committing"
    /\ next[w] <= Len(pending[w])
    /\ LET a == pending[w][next[w]] IN
       /\ carrier_profile' = [carrier_profile EXCEPT ![a.carrier].allocatable_tps =
              update_row(carrier_profile[a.carrier].allocatable_tps, a.allocated_tps)]
       /\ granted' = [granted EXCEPT ![a.carrier] = @ + a.allocated_tps]
    /\ next' = [next EXCEPT ![w] = @ + 1]
    /\ UNCHANGED << carrier_capacity, allocations, workers, pc, entry, request,
                    profile_df, pending, result, response, arrivals, refreshed,
                    session, customer, customer_info >>
    /\ UNCHANGED signing

\* {}: the one element of the description saved with a failure
EmptyDict == [carrier |-> "", allocated_tps |-> 0]

\* app.py 208-242
save_allocation_record(table, api_key, r, description, status) ==
    Append(table, [ customer_api_key |-> api_key,
                    requested_tps |-> r.requested_tps,
                    requested_destinations |-> r.destinations,
                    requested_peak_traffic_time |-> GetPeakWindow(r),
                    allocation_status |-> status,
                    allocation_description |-> description ])

\* app.py 187-191: the endpoint's success body
jsonify_success(r) ==
    [ status |-> "success", allocation |-> r.allocations,
      total_allocated |-> r.total_allocated_tps ]

\* app.py 153-172 (chat flow, which passes a db connection) and 184-191
Respond(w) ==
    /\ \/ pc[w] = "responding"
       \/ pc[w] = "committing" /\ next[w] > Len(pending[w])
    /\ pc' = [pc EXCEPT ![w] = "done"]
    /\ pending' = [pending EXCEPT ![w] = <<>>]
    /\ next' = [next EXCEPT ![w] = 1]
    /\ IF result[w].status = "error"
       THEN /\ response' = [response EXCEPT ![w] = Failure(result[w].message)]
            /\ allocations' =
                 IF entry[w] = "chat"
                 THEN save_allocation_record(allocations, customer[w], request[w],
                                             <<EmptyDict>>, "failure")
                 ELSE allocations
            /\ UNCHANGED customer_info
       ELSE /\ response' = [response EXCEPT ![w] =
                  IF entry[w] = "chat" THEN result[w]
                  ELSE jsonify_success(result[w])]
            /\ allocations' =
                 IF entry[w] = "chat"
                 THEN save_allocation_record(allocations, customer[w], request[w],
                                             result[w].allocations, "success")
                 ELSE allocations
            /\ customer_info' =
                 IF entry[w] = "chat"
                 THEN update_allocated_tps_for_customer(
                          customer_info, customer[w], request[w].requested_tps)
                 ELSE customer_info
    /\ UNCHANGED << carrier_capacity, carrier_profile, workers, entry, request,
                    profile_df, result, arrivals, refreshed, granted, session,
                    customer >>
    /\ UNCHANGED signing

\* scheduler.py 21-25: the hourly job rebuilds carrier_profile
Refresh ==
    /\ carrier_profile' = preprocess_data(carrier_capacity, allocations)
    /\ carrier_profile' # carrier_profile
    /\ refreshed' = [c \in Carriers |-> carrier_profile'[c].allocatable_tps]
    /\ granted' = [c \in Carriers |-> 0]
    /\ UNCHANGED << carrier_capacity, allocations, workers, pc, entry, request,
                    profile_df, pending, next, result, response, arrivals,
                    session, customer, customer_info >>
    /\ UNCHANGED signing

Next ==
    \/ \E w \in Workers, e \in Entries : Receive(w, e)
    \/ \E w \in Workers : allocate_customer_capacity(w)
    \/ \E w \in Workers : update_allocatable_tps(w)
    \/ \E w \in Workers : Respond(w)
    \/ Refresh
    \/ login
    \/ logout

\* scheduler.py 8-10: the job takes the date, computes its signature and
\* stores the date
refresh_signature_date ==
    /\ job.pc = "waiting"
    /\ job.runs < MaxRefreshes
    /\ job' = [ pc |-> "storing", runs |-> job.runs + 1,
                signature |-> get_signature(formatdate(job.runs + 1)) ]
    /\ signature_cache' =
         [signature_cache EXCEPT !.date = formatdate(job.runs + 1)]
    /\ UNCHANGED llm_call
    /\ UNCHANGED web

\* scheduler.py 11: it stores the signature
refresh_signature_signature ==
    /\ job.pc = "storing"
    /\ job' = [job EXCEPT !.pc = "waiting", !.signature = <<>>]
    /\ signature_cache' = [signature_cache EXCEPT !.signature = job.signature]
    /\ UNCHANGED llm_call
    /\ UNCHANGED web

\* llm_client.py 42-46: a request handler finds both fields set and puts
\* the signature into the Authorization header
call_llm_api_signature ==
    /\ llm_call.pc = "idle"
    /\ signature_cache.signature # <<>> /\ signature_cache.date # <<>>
    /\ llm_call' = [ llm_call EXCEPT
                       !.pc = "signed",
                       !.headers = [ Authorization |-> signature_cache.signature,
                                     XVonDate |-> <<>> ] ]
    /\ UNCHANGED << signature_cache, job >>
    /\ UNCHANGED web

\* llm_client.py 47: it puts the date into X-VON-DATE
call_llm_api_date ==
    /\ llm_call.pc = "signed"
    /\ llm_call' = [ llm_call EXCEPT
                       !.pc = "built",
                       !.headers.XVonDate = signature_cache.date ]
    /\ UNCHANGED << signature_cache, job >>
    /\ UNCHANGED web

\* llm_client.py 74: requests.post with these headers
call_llm_api_post ==
    /\ llm_call.pc = "built"
    /\ llm_call' = [ pc |-> "idle", headers |-> NoHeaders,
                     sent |-> llm_call.headers ]
    /\ UNCHANGED << signature_cache, job >>
    /\ UNCHANGED web

NextSignature ==
    \/ refresh_signature_date
    \/ refresh_signature_signature
    \/ call_llm_api_signature
    \/ call_llm_api_date
    \/ call_llm_api_post

RECURSIVE SeqsUpTo(_, _)
SeqsUpTo(S, n) ==
    IF n = 0 THEN { <<>> }
    ELSE LET shorter == SeqsUpTo(S, n - 1) IN
         shorter \cup { Append(q, e) : q \in shorter, e \in S }

Traffic(c, busy) ==
    IF busy THEN [avg_tps_actual |-> 1, actual_peak_hour |-> 2]
    ELSE [avg_tps_actual |-> 0, actual_peak_hour |-> 12]

CapacityTable(allowed, busy) ==
    [c \in Carriers |->
        [ allowed_tps |-> allowed[c],
          avg_tps_actual |-> Traffic(c, busy[c]).avg_tps_actual,
          actual_peak_hour |-> Traffic(c, busy[c]).actual_peak_hour,
          countries_supported |-> countries_supported[c] ]]

\* One request of any shape arrives at the single caller of app.py's
\* deployment (app.run(threaded=False)), on any carrier table; the
\* scheduler's thread refreshes the table at any time.
Capacities ==
    { CapacityTable(allowed, busy) :
        allowed \in [Carriers -> 0..MaxTps],
        busy \in { b \in [Carriers -> BOOLEAN] : ~ b["B"] /\ b["C"] } }

\* what the client did before it sends its request: nothing, a login, or
\* a login and a logout
Preludes ==
    { <<>>, << LoginEvent("c1", "1234") >>,
      << LoginEvent("c1", "1234"), LogoutEvent >> }

Init ==
    InitWith(Capacities, { p \o <<r>> : p \in Preludes, r \in Requests }, {1})

Spec == Init /\ [][Next]_vars

\* Up to MaxCalls well-formed requests arrive at callers that may be inside
\* the engine at once, on a table where A and B have capacity.
LoadedCapacities ==
    { CapacityTable(allowed, [c \in Carriers |-> FALSE]) :
        allowed \in { a \in [Carriers -> 0..MaxTps] :
                        a["A"] > 0 /\ a["B"] = 1 /\ a["C"] = 0 } }

RepeatedRequests ==
    { r \in WellFormedRequests :
        /\ r.peak_window = DefaultPeakWindow
        /\ r.requested_tps <= MaxTps
        /\ r.destinations \in { <<"US">>, <<"US", "CA">> } }

\* a client that visits /logout and logs in before its requests
LoggedIn == << LogoutEvent, LoginEvent("c1", "1234") >>

InitCalls ==
    InitWith(LoadedCapacities,
             { LoggedIn \o q :
                 q \in { q \in SeqsUpTo(RepeatedRequests, MaxCalls) : Len(q) >= 2 } },
             Workers)

SpecCalls == InitCalls /\ [][Next]_vars

\* One request for 50 TPS to US and CA in the window 9-12 arrives on a table
\* where A (US, CA) has 30 and B (US) has 40 allocatable and both have
\* their peak hour at 12; C has nothing to give and its peak hour at 2.
ScenarioCapacity ==
    CapacityTable([A |-> 30, B |-> 40, C |-> 0],
                  [A |-> FALSE, B |-> FALSE, C |-> TRUE])

ScenarioRequest ==
    [BaseRequest EXCEPT !.requested_tps = 50, !.destinations = <<"US", "CA">>,
                        !.peak_window = <<"9", "-", "12">>]

InitScenario ==
    InitWith({ScenarioCapacity}, { LoggedIn \o <<ScenarioRequest>> }, {1})

SpecScenario == InitScenario /\ [][Next]_vars

\* Up to MaxEvents logins (of two customers, one with a wrong password),
\* logouts and requests for 1 TPS to US arrive at the single caller, on a
\* table where A and B have 1 TPS each.
SessionCapacity ==
    CapacityTable([A |-> 1, B |-> 1, C |-> 0], [c \in Carriers |-> FALSE])

SessionEvents ==
    { LoginEvent("c1", "1234"), LoginEvent("c2", "1234"),
      LoginEvent("c2", "0000"), LogoutEvent, BaseRequest }

InitSession ==
    InitWith({SessionCapacity},
             SeqsUpTo(SessionEvents, MaxEvents) \ { <<>> }, {1})

SpecSession == InitSession /\ [][Next]_vars

\* start_refresh_signature_scheduler has run refresh_signature once; then
\* the scheduler's thread runs it again every 15 minutes while the request
\* handlers call call_llm_api; no allocation request arrives
InitSignature == InitWith({SessionCapacity}, { <<>> }, {1})

SpecSignature == InitSignature /\ [][NextSignature]_vars

\* ------------------------------------------------------------ the claims
Abs(n) == IF n >= 0 THEN n ELSE 0 - n

RECURSIVE SumAllocated(_)
\* the sum of allocated_tps over an allocations list, in hundredths
SumAllocated(a) ==
    IF a = <<>> THEN 0 ELSE Head(a).allocated_tps + SumAllocated(Tail(a))

\* the call of caller w has passed allocate_customer_capacity's computation
Computed(w) ==
    /\ pc[w] \in {"committing", "responding", "done"}
    /\ required_keys \subseteq request[w].keys

CountriesOf(c) ==
    {carrier_capacity[c].countries_supported[i] :
        i \in 1..Len(carrier_capacity[c].countries_supported)}
DestinationsOf(r) == {r.destinations[i] : i \in 1..Len(r.destinations)}

\* C1: the amounts that successful calls commit against a carrier between
\* two refreshes never add up to more than the allocatable_tps the carrier
\* had at the refresh.
C1_NoOvercommit ==
    \A c \in Carriers : granted[c] <= 100 * refreshed[c]

\* C2: in a success result the allocated_tps add up to requested_tps, up to
\* half a hundredth for each rounded amount.
C2_Conservation ==
    \A w \in Workers :
        result[w].status = "success" =>
            2 * Abs(SumAllocated(result[w].allocations)
                    - 100 * request[w].requested_tps)
                <= Len(result[w].allocations)

C2_RoundedSuccess ==
    \E w \in Workers :
        /\ result[w].status = "success"
        /\ Len(result[w].allocations) = 3
        /\ SumAllocated(result[w].allocations) # 100 * request[w].requested_tps

\* C3: every carrier's allocatable_tps is at least 0 in every reachable
\* state, after any commit and any refresh.
C3_CapacityNonNegative ==
    \A c \in Carriers : carrier_profile[c].allocatable_tps >= 0

C3_FlooredCommit ==
    \E c \in Carriers :
        /\ granted[c] > 100 * refreshed[c]
        /\ carrier_profile[c].allocatable_tps = 0

\* C4: when a call ends in a rejection (or raises), every carrier's
\* allocatable_tps is what the call read when it started.
C4_RejectionLeavesCapacity ==
    \A w \in Workers :
        (result[w].status = "error"
             \/ response[w].status \in {"failure", "absent", "raise"})
            => carrier_profile = profile_df[w]

C4_SolverRejection ==
    \E w \in Workers :
        /\ pc[w] = "done"
        /\ response[w] = Failure(MsgNoSolution)
        /\ \E c \in Carriers :
              /\ profile_df[w][c].allocatable_tps > 0
              /\ CountriesOf(c) \cap DestinationsOf(request[w]) # {}

\* C5: a request whose destinations no carrier supports is rejected with
\* the no-carrier-for-destinations message, whatever its peak_window and
\* the carriers' capacities and windows are.
C5_DisjointDestinations ==
    \A w \in Workers :
        ( /\ pc[w] \in {"committing", "responding", "done"}
          /\ required_keys \subseteq request[w].keys
          /\ \A c \in Carriers : CountriesOf(c) \cap DestinationsOf(request[w]) = {} )
        => /\ result[w] = Error(MsgNoDestination)
           /\ pc[w] = "done" => response[w] = Failure(MsgNoDestination)

C5_DisjointWithBadWindow ==
    \E w \in Workers :
        /\ pc[w] = "done"
        /\ required_keys \subseteq request[w].keys
        /\ request[w].destinations # <<>>
        /\ \A c \in Carriers : CountriesOf(c) \cap DestinationsOf(request[w]) = {}
        /\ ~ PeakWindowParses(request[w])
        /\ \E c \in Carriers : carrier_profile[c].allocatable_tps > 0
        /\ response[w] = Failure(MsgNoDestination)

\* a required field is missing or of the wrong shape
Malformed(r) ==
    \/ ~ (required_keys \subseteq r.keys)
    \/ ~ r.tps_is_number
    \/ r.requested_tps <= 0
    \/ r.destinations = <<>>
    \/ r.destinations = <<"U", "S">>
    \/ ~ PeakWindowParses(r)

\* the carriers of caller w's snapshot that support a requested destination
Matching(w) ==
    {c \in Carriers : CountriesOf(c) \cap DestinationsOf(request[w]) # {}}

\* C6: when every carrier that supports a requested destination has no
\* allocatable capacity, the call is rejected with the
\* no-capacity-available message.
C6_NoCapacityRejection ==
    \A w \in Workers :
        ( /\ Computed(w)
          /\ ~ Malformed(request[w])
          /\ Matching(w) # {}
          /\ \A c \in Matching(w) : profile_df[w][c].allocatable_tps <= 0 )
        => result[w] = Error(MsgNoCapacity)

\* half-open windows overlap: each begins before the other ends
Overlaps(row, r) ==
    /\ row.actual_peak_start_time < requested_end(r)
    /\ requested_start(r) < row.actual_peak_end_time

\* C7: when carriers support a destination and have capacity but none of
\* them has a peak window that overlaps the request's, the call is rejected
\* with the no-peak-window-overlap message.
C7_NoPeakOverlapRejection ==
    \A w \in Workers :
        ( /\ Computed(w)
          /\ ~ Malformed(request[w])
          /\ requested_start(request[w]) < requested_end(request[w])
          /\ \E c \in Matching(w) : profile_df[w][c].allocatable_tps > 0
          /\ \A c \in Matching(w) :
                profile_df[w][c].allocatable_tps > 0
                    => ~ Overlaps(profile_df[w][c], request[w]) )
        => result[w] = Error(MsgNoPeak)

\* the allocated_tps of the result's carriers that support d, and their number
RECURSIVE SumFor(_, _)
SumFor(a, d) ==
    IF a = <<>> THEN 0
    ELSE (IF d \in CountriesOf(Head(a).carrier) THEN Head(a).allocated_tps ELSE 0)
         + SumFor(Tail(a), d)
RECURSIVE CountFor(_, _)
CountFor(a, d) ==
    IF a = <<>> THEN 0
    ELSE (IF d \in CountriesOf(Head(a).carrier) THEN 1 ELSE 0)
         + CountFor(Tail(a), d)

\* C8: in a success result, the carriers that support a requested
\* destination are together allocated at least requested_tps divided by the
\* number of destinations, up to half a hundredth for each rounded amount.
C8_DestinationMinimum ==
    \A w \in Workers :
        result[w].status = "success" =>
            LET a == result[w].allocations
                k == Len(request[w].destinations)
            IN  \A j \in 1..k :
                  2 * k * SumFor(a, request[w].destinations[j])
                    + k * CountFor(a, request[w].destinations[j])
                      >= 200 * request[w].requested_tps

C8_ShareRoundedDown ==
    \E w \in Workers :
        /\ result[w].status = "success"
        /\ \E j \in 1..Len(request[w].destinations) :
              Len(request[w].destinations)
                  * SumFor(result[w].allocations, request[w].destinations[j])
                < 100 * request[w].requested_tps

\* the carriers left by the three stages, and what they can give
Eligible(w) ==
    {c \in Matching(w) : Overlaps(profile_df[w][c], request[w])}
RECURSIVE Capacity(_, _)
Capacity(w, S) ==
    IF S = {} THEN 0
    ELSE LET c == CHOOSE e \in S : TRUE
         IN  Max(0, profile_df[w][c].allocatable_tps) + Capacity(w, S \ {c})

\* the solver stage was reached
Solved(w) ==
    /\ Computed(w)
    /\ request[w].tps_is_number
    /\ PeakWindowParses(request[w])
    /\ Eligible(w) # {}

\* C9: when requested_tps is negative, the filtered carriers' total
\* capacity is below requested_tps, or the carriers supporting some destination cannot give its even share,
\* the call is rejected with the no-feasible-allocation message and returns
\* no allocation.
C9_InfeasibleRejected ==
    \A w \in Workers :
        ( /\ Solved(w)
          /\ \/ request[w].requested_tps < 0
             \/ Capacity(w, Eligible(w)) < request[w].requested_tps
             \/ \E d \in DestinationsOf(request[w]) :
                   Len(request[w].destinations)
                       * Capacity(w, {c \in Eligible(w) : d \in CountriesOf(c)})
                     < request[w].requested_tps )
        => /\ result[w] = Error(MsgNoSolution)
           /\ pending[w] = <<>>

C9_ShareUnmeetable ==
    \E w \in Workers :
        /\ Solved(w)
        /\ Capacity(w, Eligible(w)) >= request[w].requested_tps
        /\ \E d \in DestinationsOf(request[w]) :
              Len(request[w].destinations)
                  * Capacity(w, {c \in Eligible(w) : d \in CountriesOf(c)})
                < request[w].requested_tps
        /\ response[w] = Failure(MsgNoSolution)

\* C10: a request with a required field missing or of the wrong shape is
\* answered "Missing required fields"; the engine never reads the carrier
\* table or filters for it.
C10_MalformedRejectedFirst ==
    \A w \in Workers :
        (pc[w] \in {"committing", "responding", "done"} /\ Malformed(request[w]))
            => pc[w] = "done" /\ response[w] = MissingFields(entry[w])

\* C11: every call ends with a returned result, a success or a rejection;
\* no request and no carrier table makes a call end in an exception.
C11_NoException ==
    \A w \in Workers : response[w].status # "raise"

\* C12: what a helper or endpoint call hands back has status "success" or
\* "failure", never "error"; a success carries allocations and
\* total_allocated_tps, a failure carries a message.
C12_CallerStatus ==
    \A w \in Workers :
        (pc[w] = "done" /\ response[w].status # "raise") =>
            /\ response[w].status \in {"success", "failure"}
            /\ response[w].status = "success" =>
                  {"allocations", "total_allocated_tps"} \subseteq DOMAIN response[w]
            /\ response[w].status = "failure" => response[w].message # ""

\* C14: with A (US, CA; 30) and B (US; 40) both overlapping the window and
\* the request for 50 TPS to US and CA in 9-12, the call succeeds, A and B
\* together get 50, A gets at least 25 and at most 30, and B at most 40.
C14_Scenario ==
    \A w \in Workers :
        Computed(w) =>
            LET a == result[w].allocations IN
            /\ result[w].status = "success"
            /\ SumAllocated(a) = 100 * 50
            /\ DescriptionTotal(a, "A") + DescriptionTotal(a, "B") = 100 * 50
            /\ 100 * 25 <= DescriptionTotal(a, "A")
            /\ DescriptionTotal(a, "A") <= 100 * 30
            /\ DescriptionTotal(a, "B") <= 100 * 40

C14_SharedBetweenBoth ==
    \E w \in Workers :
        /\ pc[w] = "done"
        /\ response[w].status = "success"
        /\ request[w] = ScenarioRequest
        /\ profile_df[w]["A"].allocatable_tps = 30
        /\ profile_df[w]["B"].allocatable_tps = 40
        /\ 100 * 25 < DescriptionTotal(result[w].allocations, "A")
        /\ DescriptionTotal(result[w].allocations, "A") < 100 * 30

\* the hundredths granted from carrier c by the successful calls recorded
\* in the allocations table
RECURSIVE RecordedTotal(_, _)
RecordedTotal(table, c) ==
    IF table = <<>> THEN 0
    ELSE (IF Head(table).allocation_status = "success"
          THEN DescriptionTotal(Head(table).allocation_description, c) ELSE 0)
         + RecordedTotal(Tail(table), c)

\* C15: a refresh leaves each carrier at most what its allowed_tps less its
\* traffic less the recorded successful allocations comes to (rounded to
\* an integer), so capacity already committed is not handed out again.
C15_RefreshKeepsCommitted ==
    [][Refresh =>
         \A c \in Carriers :
            100 * carrier_profile'[c].allocatable_tps
              <= Max(0, 100 * (carrier_capacity[c].allowed_tps
                               - carrier_capacity[c].avg_tps_actual)
                        - RecordedTotal(allocations, c)) + 50]_vars

\* C16: when a call returns from the engine, through the helper or through
\* the endpoint, exactly one row with the request's fields and the status
\* handed back is added to the allocations table.
C16_OneAuditRecord ==
    [][\A w \in Workers :
         Respond(w) =>
            /\ Len(allocations') = Len(allocations) + 1
            /\ LET row == allocations'[Len(allocations')] IN
               /\ row.allocation_status = response'[w].status
               /\ row.requested_tps = request[w].requested_tps
               /\ row.requested_destinations = request[w].destinations
               /\ row.requested_peak_traffic_time = GetPeakWindow(request[w])]_vars

\* C17: the stages run in the order destination, capacity, peak window and
\* the reason is that of the first empty stage: when every carrier that
\* supports a destination has no capacity and also a window that does not
\* overlap the request's, the reason is the no-capacity one.
C17_FirstEmptyStage ==
    \A w \in Workers :
        ( /\ Computed(w)
          /\ ~ Malformed(request[w])
          /\ requested_start(request[w]) < requested_end(request[w])
          /\ Matching(w) # {}
          /\ \A c \in Matching(w) :
                /\ profile_df[w][c].allocatable_tps <= 0
                /\ ~ Overlaps(profile_df[w][c], request[w]) )
        => /\ result[w].status = "error"
           /\ result[w].message \notin {MsgNoPeak, MsgNoSolution}
           /\ result[w].message = MsgNoCapacity

\* C18: in a success result every carrier's allocated_tps is between 0 and
\* the allocatable_tps the call read for it, and the carrier supports a
\* requested destination, has positive capacity and overlaps the window.
C18_WithinSnapshot ==
    \A w \in Workers :
        result[w].status = "success" =>
            \A i \in 1..Len(result[w].allocations) :
                LET a == result[w].allocations[i]
                    row == profile_df[w][a.carrier]
                IN  /\ 0 <= a.allocated_tps
                    /\ a.allocated_tps <= 100 * row.allocatable_tps
                    /\ a.carrier \in Matching(w)
                    /\ row.allocatable_tps > 0
                    /\ Overlaps(row, request[w])

C18_LimitReachedOthersFiltered ==
    \E w \in Workers :
        /\ result[w].status = "success"
        /\ \E i \in 1..Len(result[w].allocations) :
              result[w].allocations[i].allocated_tps
                = 100 * profile_df[w][result[w].allocations[i].carrier].allocatable_tps
        /\ \E c \in Matching(w) :
              /\ profile_df[w][c].allocatable_tps > 0
              /\ ~ Overlaps(profile_df[w][c], request[w])

\* C19: one UPDATE of a commit sets the named carrier's allocatable_tps to
\* max(0, allocatable_tps - allocated_tps) and leaves that carrier's other
\* fields and every other carrier's row unchanged.
C19_CommitSubtracts ==
    [][\A w \in Workers :
         update_allocatable_tps(w) =>
            LET a == pending[w][next[w]]
                old == carrier_profile[a.carrier]
            IN  /\ 100 * carrier_profile'[a.carrier].allocatable_tps
                     = Max(0, 100 * old.allocatable_tps - a.allocated_tps)
                /\ carrier_profile'[a.carrier]
                     = [old EXCEPT !.allocatable_tps =
                                     carrier_profile'[a.carrier].allocatable_tps]
                /\ \A c \in Carriers \ {a.carrier} :
                      carrier_profile'[c] = carrier_profile[c]]_vars

\* caller w has run some but not all of the UPDATEs of its commit
PartlyCommitted(w) ==
    /\ pc[w] = "committing"
    /\ 1 < next[w]
    /\ next[w] <= Len(pending[w])

\* C20: while some but not all carriers of one allocation are decremented,
\* no refresh rebuilds the table and no other call reads it or writes it.
C20_AtomicCommit ==
    [][(\E w \in Workers : PartlyCommitted(w)) =>
          /\ ~ Refresh
          /\ \A v \in Workers :
                PartlyCommitted(v) \/
                    ~ (allocate_customer_capacity(v) \/ update_allocatable_tps(v))]_vars

\* C21: a step that is not a refresh never raises a carrier's
\* allocatable_tps, and changes the carrier table only as one UPDATE of
\* update_allocatable_tps.
C21_OnlyRefreshRaises ==
    [][~ Refresh =>
          /\ \A c \in Carriers :
                carrier_profile'[c].allocatable_tps
                    <= carrier_profile[c].allocatable_tps
          /\ carrier_profile' # carrier_profile
                => \E w \in Workers : update_allocatable_tps(w)]_vars

C21_LoweredByCommit ==
    \E c \in Carriers :
        /\ granted[c] > 0
        /\ carrier_profile[c].allocatable_tps < refreshed[c]

\* C22: a request that gives no peak_window (and every other field) is
\* handled as a request for the whole day: it reaches the peak stage and
\* that stage rejects no carrier of it, so the call ends neither with the
\* missing-fields answer nor with the no-peak-overlap message.
C22_DefaultWholeDay ==
    \A w \in Workers :
        ( /\ pc[w] = "done"
          /\ request[w].keys = required_keys \ {"peak_window"} )
        => /\ result[w].status # "none"
           /\ response[w].message \notin {MsgMissing, MsgNoPeak}

\* C23: in a success result the list holds the carriers given a positive
\* amount, each amount a whole number of hundredths, and the reported
\* total_allocated_tps is the sum of the allocated_tps of the list.
C23_TotalIsSum ==
    \A w \in Workers :
        result[w].status = "success" =>
            /\ \A i \in 1..Len(result[w].allocations) :
                  /\ result[w].allocations[i].allocated_tps > 0
                  /\ result[w].allocations[i].carrier \in Eligible(w)
            /\ result[w].total_allocated_tps
                 = SumAllocated(result[w].allocations)

RECURSIVE SuccessfulTps(_, _)
\* the requested_tps of customer k's successful calls through the helper,
\* which the allocations table records
SuccessfulTps(table, k) ==
    IF table = <<>> THEN 0
    ELSE (IF /\ Head(table).allocation_status = "success"
             /\ Head(table).customer_api_key = k
          THEN Head(table).requested_tps ELSE 0)
         + SuccessfulTps(Tail(table), k)

SuccessfulKeys ==
    { ev.api_key :
        ev \in { e \in SessionEvents :
                   /\ ~ IsRequest(e)
                   /\ e.event = "login"
                   /\ login_session(NoKey, e) # NoKey } }

\* C26: a request to /chat/message is handled only while the session holds
\* the api_key of a successful login, and only such a call takes a step of
\* the allocator; with no api_key in the session (before any login, after
\* a logout) the request is redirected to "/" and the call ends there.
C26_ChatNeedsLogin ==
    [][\A w \in Workers :
          /\ Receive(w, "chat") =>
                IF session = NoKey
                THEN response'[w] = Redirect /\ pc'[w] = "refused"
                ELSE session \in SuccessfulKeys /\ pc'[w] \in {"received", "done"}
          /\ ( /\ entry[w] = "chat"
               /\ \/ allocate_customer_capacity(w)
                  \/ update_allocatable_tps(w)
                  \/ Respond(w) )
             => customer[w] \in SuccessfulKeys]_vars

\* after a login, a recorded chat allocation and a logout, a chat request
\* was redirected
C26_RedirectedAfterLogout ==
    \E w \in Workers :
        /\ pc[w] = "refused"
        /\ response[w] = Redirect
        /\ session = NoKey
        /\ \E i \in 1..Len(allocations) :
              allocations[i].allocation_status = "success"

\* C25: the signature and the date in the headers of a request sent to the
\* LLM service come from the same refresh: the signature is the one
\* computed for that date.
C25_SameRefresh ==
    llm_call.sent # NoHeaders
        => llm_call.sent.Authorization = get_signature(llm_call.sent.XVonDate)
====
